---------------------------- MODULE Spec2Model ----------------------------
(***************************************************************************)
(* A model of safeexecute/__init__.py: execute_python_code and             *)
(* execute_github_copilot, the docker container they start, the files they *)
(* stage in the workspace and the value they return.                       *)
(*                                                                         *)
(* Text is a sequence of tokens.  A path is the sequence of its tokens     *)
(* with "/" a token of its own; a captured output is the sequence of its   *)
(* chunks, a chunk being one of the error signatures or other text.  The   *)
(* text of a snippet is the sequence of its names, with each blank,        *)
(* newline and punctuation character a token of its own and the literal    *)
(* "pip install" one token; <NUL> is the null byte, <quote> the double     *)
(* quote and <fence> the three backquotes of a markdown code block.        *)
(***************************************************************************)
EXTENDS Integers, Sequences, FiniteSets, TLC

VARIABLES
    fn,                 \* the function being called: "none", "python", "copilot"
    pc,                 \* position of the call in the function's code
    inDocker,           \* os.path.exists("/.dockerenv")
    hostWs,             \* os.environ.get("WORKING_DIRECTORY"), None when unset
    wd,                 \* working_directory
    volPath,            \* docker_volume_path
    snippet,            \* the code / prompt argument of the call
    token,              \* github_token (its prefix)
    wsDirs,             \* directories that exist, seen from the engine
    files,              \* staged files in working_directory: name -> content
    explicit_packages,  \* list found by the pip-install pattern
    imports,            \* set returned by extract_imports
    imageOK,            \* outcome of install_docker_image: "unknown", "ok", "failed"
    containers,         \* the containers started by the call, in order
    ip,                 \* next line of the wrapper script the container's bash runs
    execLog,            \* the commands the containers have executed, in order
    exit_code,          \* exit_code local of the call
    logs,               \* logs local (python) / all_output (copilot)
    now,                \* wall clock, in seconds
    loopStart,          \* start_time of the streaming loop
    waitStart,          \* time at which container.wait(timeout=...) was entered
    result,             \* what the call gave its caller
    session,            \* what earlier calls on the working directory left behind
    install_commands,   \* install_commands local of execute_python_code
    hashSeed,           \* the string hash seed of the host process (PYTHONHASHSEED)
    modes,              \* permission bits of the staged files: name -> mode
    callback,           \* is a stream_callback supplied
    session_id,         \* session_id argument of execute_github_copilot
    events,             \* the dicts passed to stream_callback, in order
    line_buffer,        \* line_buffer local of execute_github_copilot
    last_emit_time,     \* last_emit_time: 0, or 1 once an emit has set it
    log_positions,      \* log_positions: how much of the tool log has been read
    conc                \* calls made at the same time: id -> locals, container

vars == <<fn, pc, inDocker, hostWs, wd, volPath, snippet, token, wsDirs, files,
          explicit_packages, imports, imageOK, containers, ip, execLog,
          exit_code, logs, now, loopStart, waitStart, result, session,
          install_commands, hashSeed, modes, callback, session_id, events,
          line_buffer, last_emit_time, log_positions, conc>>

-----------------------------------------------------------------------------
(* Bounds of the model *)

MaxLogLen == 2          \* chunks in a captured output of the classifier check
Tick == 2000            \* seconds by which the clock advances in one step
MaxTicks == 5           \* the clock stops after this many ticks

MaxTime == Tick * MaxTicks

MaxCalls == 2           \* calls made one after the other on a working directory
LongLen == 250          \* characters in a long piece of output without a newline
ShortLen == 20          \* characters in another piece of output
MaxToolCalls == 1       \* tool calls the CLI writes to its log

-----------------------------------------------------------------------------
(* Text helpers *)

None == <<"<None>">>

RECURSIVE IndexFrom(_, _, _)
IndexFrom(s, sub, i) ==
    IF i + Len(sub) - 1 > Len(s) THEN 0
    ELSE IF SubSeq(s, i, i + Len(sub) - 1) = sub THEN i
    ELSE IndexFrom(s, sub, i + 1)

\* s.find(sub) + 1: the first position of sub in s, 0 when absent
IndexOf(s, sub) == IndexFrom(s, sub, 1)

\* sub in s
Contains(s, sub) == IndexOf(s, sub) # 0

\* s.startswith(prefix)
StartsWith(s, prefix) == Len(s) >= Len(prefix) /\ SubSeq(s, 1, Len(prefix)) = prefix

Range(s) == {s[i] : i \in 1..Len(s)}

\* s.split(sub, 1)[1], for s that contains sub
SplitAfter(s, sub) == SubSeq(s, IndexOf(s, sub) + Len(sub), Len(s))

RECURSIVE RStrip(_, _)
\* s.rstrip(ch)
RStrip(s, ch) ==
    IF s # <<>> /\ s[Len(s)] = ch THEN RStrip(SubSeq(s, 1, Len(s) - 1), ch) ELSE s

RECURSIVE SplitSlash(_, _, _)
\* path.split("/"): the components of a path, each a sequence of tokens
SplitSlash(s, cur, acc) ==
    IF s = <<>> THEN Append(acc, cur)
    ELSE IF Head(s) = "/" THEN SplitSlash(Tail(s), <<>>, Append(acc, cur))
    ELSE SplitSlash(Tail(s), Append(cur, Head(s)), acc)

RECURSIVE Resolve(_, _)
\* the loop of posixpath.normpath over the components of an absolute path
Resolve(comps, acc) ==
    IF comps = <<>> THEN acc
    ELSE LET c == Head(comps) IN
         IF c = <<>> \/ c = <<".">> THEN Resolve(Tail(comps), acc)
         ELSE IF c = <<"..">> THEN
              Resolve(Tail(comps),
                      IF acc = <<>> THEN acc ELSE SubSeq(acc, 1, Len(acc) - 1))
         ELSE Resolve(Tail(comps), Append(acc, c))

RECURSIVE JoinSlash(_)
JoinSlash(comps) ==
    IF comps = <<>> THEN <<>> ELSE <<"/">> \o Head(comps) \o JoinSlash(Tail(comps))

\* the components of the normalised form of an absolute path
NormComponents(p) == Resolve(SplitSlash(p, <<>>, <<>>), <<>>)

\* os.getcwd() of the engine
Cwd == <<"/", "app">>

\* os.path.join(a, b) for a relative b
PathJoin(a, b) == IF a # <<>> /\ a[Len(a)] = "/" THEN a \o b ELSE a \o <<"/">> \o b

\* os.path.abspath(p)
AbsPath(p) ==
    LET full == IF p # <<>> /\ Head(p) = "/" THEN p ELSE PathJoin(Cwd, p)
        comps == NormComponents(full)
    IN  IF comps = <<>> THEN <<"/">> ELSE JoinSlash(comps)


\* is path p the directory root or a path below it
IsUnder(p, root) ==
    LET pc_ == NormComponents(p)
        rc == NormComponents(root)
    IN  Len(rc) <= Len(pc_) /\ SubSeq(pc_, 1, Len(rc)) = rc

\* \s of the patterns
IsSpace(t) == t \in {" ", "\n", "\r"}

RECURSIVE LStripSpace(_)
LStripSpace(s) == IF s # <<>> /\ IsSpace(Head(s)) THEN LStripSpace(Tail(s)) ELSE s

RECURSIVE RStripSpace(_)
RStripSpace(s) ==
    IF s # <<>> /\ IsSpace(s[Len(s)]) THEN RStripSpace(SubSeq(s, 1, Len(s) - 1)) ELSE s

\* s.strip()
Strip(s) == RStripSpace(LStripSpace(s))

RECURSIVE SplitOn(_, _, _, _)
SplitOn(s, sep, cur, acc) ==
    IF s = <<>> THEN Append(acc, cur)
    ELSE IF Head(s) = sep THEN SplitOn(Tail(s), sep, <<>>, Append(acc, cur))
    ELSE SplitOn(Tail(s), sep, Append(cur, Head(s)), acc)

\* s.split(sep) for a separator of one token
Split(s, sep) == SplitOn(s, sep, <<>>, <<>>)

\* the lines of a text
Lines(s) == Split(s, "\n")

RECURSIVE Flatten(_)
\* the concatenation of a sequence of sequences
Flatten(ss) == IF ss = <<>> THEN <<>> ELSE Head(ss) \o Flatten(Tail(ss))

-----------------------------------------------------------------------------
(* Program constants *)

IMAGE_NAME == "joshxt/safeexecute:latest"

IMPORT_TO_PACKAGE ==
    [imp \in {"cv2", "PIL", "sklearn", "yaml", "bs4", "lxml"} |->
        CASE imp = "cv2" -> "opencv-python"
          [] imp = "PIL" -> "pillow"
          [] imp = "sklearn" -> "scikit-learn"
          [] imp = "yaml" -> "pyyaml"
          [] imp = "bs4" -> "beautifulsoup4"
          [] imp = "lxml" -> "lxml"]

error_indicators ==
    {"Traceback (most recent call last):", "SyntaxError:", "NameError:",
     "TypeError:", "ValueError:", "KeyError:", "IndexError:", "AttributeError:",
     "ImportError:", "ModuleNotFoundError:", "FileNotFoundError:",
     "ZeroDivisionError:", "RuntimeError:", "Exception:"}

\* timeout of line 755: the streaming loop gives up after an hour
timeout == 3600

\* the timeout argument of container.wait at line 862
wait_timeout == 3630

\* the remediation note appended to the logs of a failed run
guidance == "\n\n---\n**Code Execution Failed**: ..."

\* the tail of the text returned from the except clause
ExecutionFailedNote == "\n\n---\n**Execution Failed**: Please fix the issue and try again."

-----------------------------------------------------------------------------
(* Inputs of a call and states of its environment *)

\* print(x)
PlainSnippet == <<"print", "(", "x", ")">>

\* two imports, and a directive in a comment on the last line
DirectiveLastSnippet ==
    <<"import", " ", "cv2", "\n", "import", " ", "numpy", "\n",
      "#", " ", "pip install", " ", "requests">>

\* a directive in a comment on the first line, code on the lines after it
DirectiveFirstSnippet ==
    <<"#", " ", "pip install", " ", "requests", "\n",
      "import", " ", "yaml", "\n", "print", "(", "x", ")">>

\* an unclosed parenthesis: ast.parse raises SyntaxError
UnclosedSnippet ==
    <<"import", " ", "cv2", ",", " ", "numpy", "\n", "print", "(", "x">>

\* a null byte in the text
NullByteSnippet == <<"import", " ", "cv2", "\n", "x", " ", "=", " ", "<NUL>">>

\* an expression nested deeper than the parser's recursion limit, such as a
\* sum of some thousand terms
DeepSnippet == <<"import", " ", "cv2", "\n", "x", " ", "=", " ", "<deep expression>">>

\* a snippet inside a markdown fence
FencedSnippet == <<"<fence python>", "\n", "import", " ", "yaml", "\n", "<fence>">>

Snippets ==
    {PlainSnippet, DirectiveLastSnippet, DirectiveFirstSnippet, UnclosedSnippet,
     NullByteSnippet, DeepSnippet, FencedSnippet}

Prompt == <<"fix", " ", "the", " ", "tests">>

WorkingDirs ==
    {None, <<"/", "app", "/", "WORKSPACE", "/", "s1">>, <<"/", "data">>}

HostWorkspaces == {None, <<"/", "host", "/", "ws", "/">>}

\* working_directory after the default of lines 78-79 is applied
DefaultWorkingDir(w) == IF w = None THEN PathJoin(Cwd, <<"WORKSPACE">>) ELSE w

AllWorkingDirs == {DefaultWorkingDir(w) : w \in WorkingDirs}

ExitCodes == {0, 1}

\* the directories in which a snippet may leave its process: where it was
\* started, or a directory it made in the workspace and changed to
SnippetDirs == {<<"/", "workspace">>, <<"/", "workspace", "/", "sub">>}

\* outputs a snippet may print
SampleLogs == {<<"2">>, <<"Traceback (most recent call last):", "NameError:">>, <<"KeyError:">>}

Chunks == error_indicators \cup {"2", "exception handled"}

RECURSIVE SeqsUpTo(_, _)
SeqsUpTo(S, n) ==
    IF n = 0 THEN {<<>>}
    ELSE LET shorter == SeqsUpTo(S, n - 1)
         IN  shorter \cup {Append(s, x) : s \in shorter, x \in S}

AllLogs == SeqsUpTo(Chunks, MaxLogLen)

\* the orders in which a for loop may iterate a set
Orders(S) ==
    {o \in [1..Cardinality(S) -> S] : \A i, j \in 1..Cardinality(S) : i # j => o[i] # o[j]}

\* the seeds a host process may draw for the hash of str; the seed is drawn
\* when the interpreter starts unless PYTHONHASHSEED fixes it
HashSeeds == {1, 2}

\* the order in which a process with the seed iterates the set of str S: the
\* slot of a name in the set's table is its hash, which the seed decides
SetOrder(seed, S) ==
    LET first == CHOOSE o \in Orders(S) : TRUE IN
    IF seed = 1 \/ Cardinality(S) < 2 THEN first
    ELSE CHOOSE o \in Orders(S) : o # first

-----------------------------------------------------------------------------
(* Pure parts of execute_python_code *)

\* docker_volume_path of lines 82-92 (and 491-500)
DockerVolumePath(working_directory, dockerenv, host_workspace) ==
    LET workspace_marker == <<"/", "WORKSPACE">> IN
    IF dockerenv /\ host_workspace # None /\ host_workspace # <<>>
    THEN IF Contains(working_directory, workspace_marker)
         THEN RStrip(host_workspace, "/") \o SplitAfter(working_directory, workspace_marker)
         ELSE host_workspace
    ELSE working_directory

\* the tokens outside the class [\w\-\[\]>=<,.\s] of the pattern of line 98
NonClass == {"#", "(", ")", "<quote>", "<NUL>", "<fence python>", "<fence>"}

InClass(t) == t \notin NonClass

RECURSIVE ClassRunEnd(_, _)
\* the last position of the longest run of class tokens of s that starts at i
\* (i - 1 when s[i] is no class token)
ClassRunEnd(s, i) ==
    IF i <= Len(s) /\ InClass(s[i]) THEN ClassRunEnd(s, i + 1) ELSE i - 1

RECURSIVE FindAllPip(_, _)
\* re.findall(r"pip install\s+([\w\-\[\]>=<,.\s]+)", s), scanning from i: \s+
\* needs one blank or newline and the group one class token after it; the
\* group runs on, over newlines too, to the first token outside the class,
\* and the scan resumes behind it
FindAllPip(s, i) ==
    IF i > Len(s) THEN <<>>
    ELSE IF s[i] = "pip install" /\ i + 1 <= Len(s) /\ IsSpace(s[i + 1])
              /\ ClassRunEnd(s, i + 1) >= i + 2
         THEN LET j == ClassRunEnd(s, i + 1)
              IN  <<SubSeq(s, i + 2, j)>> \o FindAllPip(s, j + 1)
         ELSE FindAllPip(s, i + 1)

\* explicit_packages of lines 98-99: the matches, stripped, less the empty ones
ExplicitPackages(code) ==
    LET found == FindAllPip(code, 1)
        stripped == [i \in 1..Len(found) |-> Strip(found[i])]
    IN  SelectSeq(stripped, LAMBDA p_ : p_ # <<>>)

\* lines 102-103: code.split("<fence python>")[1].split("<fence>")[0]
StripFence(code) ==
    IF Contains(code, <<"<fence python>">>)
    THEN LET rest == SplitAfter(code, <<"<fence python>">>)
         IN  IF Contains(rest, <<"<fence>">>)
             THEN SubSeq(rest, 1, IndexOf(rest, <<"<fence>">>) - 1)
             ELSE rest
    ELSE code

RECURSIVE Count(_, _)
Count(s, t) ==
    IF s = <<>> THEN 0 ELSE (IF Head(s) = t THEN 1 ELSE 0) + Count(Tail(s), t)

\* what ast.parse(code) does at line 60: it raises SyntaxError for a text that
\* is no module, here one with a parenthesis left open; for a text with a
\* null byte it raises ValueError ("source code string cannot contain null
\* bytes") on Python 3.10 and SyntaxError on later versions (setup.py asks
\* for 3.10 or later); for an expression nested too deep it raises
\* RecursionError while it builds the tree
AstParse(code) ==
    IF Contains(code, <<"<NUL>">>) THEN {"ValueError", "SyntaxError"}
    ELSE IF Contains(code, <<"<deep expression>">>) THEN {"RecursionError"}
    ELSE IF Count(code, "(") # Count(code, ")") THEN {"SyntaxError"}
    ELSE {"ok"}

IsName(t) == t \notin NonClass \cup {" ", "\n", ",", "=", "pip install"}

\* lines 61-68: the top-level names of the Import and ImportFrom nodes of a
\* statement line
AstImportsOfLine(line) ==
    LET l == LStripSpace(line) IN
    IF l # <<>> /\ Head(l) = "import"
    THEN {l[i] : i \in {k \in 2..Len(l) : IsName(l[k])}}
    ELSE IF Len(l) >= 3 /\ Head(l) = "from" /\ IsName(l[3]) THEN {l[3]}
    ELSE {}

\* lines 71-73: group 1 of ^\s*(?:from|import)\s+([a-zA-Z_][a-zA-Z0-9_]*) on a line
RegexImportsOfLine(line) ==
    LET l == LStripSpace(line) IN
    IF Len(l) >= 3 /\ Head(l) \in {"import", "from"} /\ IsSpace(l[2])
       /\ LStripSpace(Tail(l)) # <<>> /\ IsName(Head(LStripSpace(Tail(l))))
    THEN {Head(LStripSpace(Tail(l)))}
    ELSE {}

\* the names the loop of lines 72-73 adds
RegexImports(code) == UNION {RegexImportsOfLine(l) : l \in Range(Lines(code))}

\* extract_imports(code), lines 56-74, when ast.parse has the outcome: the
\* set it returns, or the exception that leaves it
extract_imports(code, outcome) ==
    IF outcome = "ok"
    THEN [raised |-> "", imports |-> UNION {AstImportsOfLine(l) : l \in Range(Lines(code))}]
    ELSE IF outcome = "SyntaxError"
    THEN [raised |-> "", imports |-> RegexImports(code)]
    ELSE [raised |-> outcome, imports |-> {}]

\* a command of a script line and its argument; quiet: it has 2>/dev/null
Cmd(c, arg) == [c |-> c, arg |-> arg, quiet |-> TRUE]

Loud(c, arg) == [c |-> c, arg |-> arg, quiet |-> FALSE]

\* a line of the package text that bash takes for a command of its own
Stray(seg) == [c |-> Head(seg), arg |-> Strip(Tail(seg))]

\* the lines bash reads in "pip install -q " + pkg + tail: a package text of
\* one line makes the one line meant; the newlines of a longer one end the
\* command, so that its first line is installed without the tail, and its
\* other lines are run as commands, the last of them with the tail
BashLines(pkg, tail) ==
    LET segs == SelectSeq([i \in 1..Len(Lines(pkg)) |-> Strip(Lines(pkg)[i])],
                          LAMBDA l : l # <<>>)
        n == Len(segs)
    IN  IF n = 1 THEN <<<<Cmd("pip install -q", segs[1])>> \o tail>>
        ELSE <<<<Loud("pip install -q", segs[1])>>>>
             \o [i \in 1..(n - 2) |-> <<Stray(segs[i + 1]) @@ [quiet |-> FALSE]>>]
             \o <<<<Stray(segs[n]) @@ [quiet |-> TRUE]>> \o tail>>

\* ExplicitInstallLine with a fault: the script gives up when the install fails
ExplicitInstallLineFailFast(pkg) == BashLines(pkg, <<Cmd("exit", "1")>>)

\* line 122: pip install -q {pkg} 2>/dev/null || true
ExplicitInstallLine(pkg) == BashLines(pkg, <<Cmd("true", "")>>)

\* IMPORT_TO_PACKAGE.get(imp, imp)
PackageName(imp) ==
    IF imp \in DOMAIN IMPORT_TO_PACKAGE THEN IMPORT_TO_PACKAGE[imp] ELSE imp

\* line 128: python -c 'import {imp}' 2>/dev/null || pip install -q {pkg_name} 2>/dev/null || true
ImportInstallLine(imp) ==
    <<Cmd("python -c import", imp), Cmd("pip install -q", PackageName(imp)), Cmd("true", "")>>

\* install_commands of lines 118-129, each command as the lines bash reads in
\* it; order is the order in which the set is iterated
InstallCommands(explicit, order) ==
    [i \in 1..Len(explicit) |-> ExplicitInstallLine(explicit[i])]
    \o [i \in 1..Len(order) |-> <<ImportInstallLine(order[i])>>]

RunLine == <<Loud("python", "/workspace/temp.py")>>

\* WrapperScript with a fault: the snippet is run before the installs
WrapperScriptRunFirst(commands) == <<RunLine>> \o Flatten(commands)

\* wrapper_script of lines 132-136, less its #!/bin/bash line
WrapperScript(commands) == Flatten(commands) \o <<RunLine>>

\* HasError with a fault: both conditions are required
HasErrorAnd(code, text) ==
    code # 0 /\ \E indicator \in error_indicators : Contains(text, <<indicator>>)

\* has_error of lines 186-188
HasError(code, text) ==
    code # 0 \/ \E indicator \in error_indicators : Contains(text, <<indicator>>)

\* the value returned at lines 190-206
Classified(code, text) ==
    IF HasError(code, text) THEN text \o <<guidance>> ELSE text

\* the volumes argument of lines 146-151
PyVolumes(docker_volume_path) ==
    {[source |-> AbsPath(docker_volume_path), bind |-> <<"/", "workspace">>, mode |-> "rw"]}

\* the container client.containers.run gives for the arguments of lines 143-156;
\* network_disabled is docker's default since the call does not pass it
PyContainer(docker_volume_path, t) ==
    [image |-> IMAGE_NAME,
     command |-> "bash /workspace/run_wrapper.sh",
     volumes |-> PyVolumes(docker_volume_path),
     working_dir |-> <<"/", "workspace">>,
     cwd |-> <<"/", "workspace">>,
     network_disabled |-> FALSE,
     status |-> "running",
     StatusCode |-> 0,
     output |-> <<>>,
     startedAt |-> t,
     exitedAt |-> 0,
     killed |-> FALSE,
     toolLog |-> <<>>]

-----------------------------------------------------------------------------
(* bash, running the lines of the wrapper script *)

\* does command cmd succeed, given the outcome ok its program has
CmdOk(cmd, ok) == cmd.c = "true" \/ (cmd.c # "exit" /\ ok)

\* in the list c1 || c2 || ..., command i runs when all before it failed
Reached(line, o, i) == \A j \in 1..(i - 1) : ~CmdOk(line[j], o[j])

LineStatus(line, o) ==
    IF \E i \in 1..Len(line) : Reached(line, o, i) /\ CmdOk(line[i], o[i]) THEN 0 ELSE 1

LineExits(line, o) == \E i \in 1..Len(line) : line[i].c = "exit" /\ Reached(line, o, i)

PipFailed(line, o) ==
    \E i \in 1..Len(line) : line[i].c = "pip install -q" /\ Reached(line, o, i) /\ ~o[i]

\* is the line one of the install steps, or a stray line of a package text
LineKind(line) ==
    IF line[1].c \in {"pip install -q", "python -c import"} THEN "install" ELSE "stray"

\* what bash and the commands of the line write to the container's output:
\* the message of each command that fails without 2>/dev/null
LineStderr(line, o) ==
    IF \E i \in 1..Len(line) : Reached(line, o, i) /\ ~o[i] /\ ~line[i].quiet
                                /\ line[i].c \notin {"true", "exit"}
    THEN <<"message on stderr">> ELSE <<>>

-----------------------------------------------------------------------------
(* State after import of the module, before a call *)

NoResult == [kind |-> "none", value |-> <<>>]

\* the container's working directory at the start of a call sequence
SandboxRoot == <<"/", "workspace">>

\* no call has been made on the working directory yet
NoSession == [calls |-> 0, cwd |-> SandboxRoot, snippet |-> None, install |-> <<>>]

Init ==
    /\ fn = "none"
    /\ pc = "idle"
    /\ inDocker \in BOOLEAN
    /\ hostWs \in HostWorkspaces
    /\ wd = None
    /\ volPath = None
    /\ snippet = Prompt
    /\ token = None
    /\ wsDirs \in {{}, AllWorkingDirs}
    /\ files = <<>>
    /\ modes = <<>>
    /\ callback = FALSE
    /\ session_id = None
    /\ events = <<>>
    /\ line_buffer = <<>>
    /\ last_emit_time = 0
    /\ log_positions = 0
    /\ explicit_packages = <<>>
    /\ imports = {}
    /\ install_commands = <<>>
    /\ hashSeed \in HashSeeds
    /\ session = NoSession
    /\ imageOK = "unknown"
    /\ containers = <<>>
    /\ ip = 1
    /\ execLog = <<>>
    /\ exit_code = 0
    /\ logs = <<>>
    /\ now = 0
    /\ loopStart = 0
    /\ waitStart = 0
    /\ result = NoResult
    /\ conc = <<>>

WriteFile(name, content) == (name :> content) @@ files

\* 0o644, the mode open(name, "w") gives a file it creates under the usual
\* umask of 0o022; a file that exists keeps its mode
NewFileMode == 420

\* 0o755, the mode of the os.chmod calls of lines 111 and 140
StagedMode == 493

\* the modes after open(name, "w")
Opened(name) == IF name \in DOMAIN modes THEN modes ELSE (name :> NewFileMode) @@ modes

\* the modes after open(name, "w") and os.chmod(name, mode)
Chmod(name, mode) == (name :> mode) @@ modes

\* does the mode grant execute to the owner, the group, the others
OwnerExec(mode) == (mode \div 64) % 2 = 1
GroupExec(mode) == (mode \div 8) % 2 = 1
OtherExec(mode) == mode % 2 = 1

RemoveFiles(names) == [n \in (DOMAIN files) \ names |-> files[n]]

\* the except clause of lines 207-209
PyExcept(e) ==
    /\ result' = [kind |-> "str", value |-> <<"Error: ", e, ExecutionFailedNote>>]
    /\ pc' = "returned"

\* an exception that no clause of the function catches
Raise(e) ==
    /\ result' = [kind |-> "exception", value |-> <<e>>]
    /\ pc' = "raised"

-----------------------------------------------------------------------------
(* execute_python_code *)

\* lines 77-92: the call and the volume path
PyEnter(code, working_directory) ==
    /\ pc = "idle"
    /\ fn' = "python"
    /\ snippet' = code
    /\ wd' = DefaultWorkingDir(working_directory)
    /\ volPath' = DockerVolumePath(wd', inDocker, hostWs)
    /\ pc' = "makedirs"
    /\ UNCHANGED <<inDocker, hostWs, token, wsDirs, files, explicit_packages, imports,
                   imageOK, containers, ip, execLog, exit_code, logs, now, loopStart,
                   waitStart, result, session, install_commands, hashSeed, modes,
                   callback, session_id, events, line_buffer, last_emit_time,
                   log_positions, conc>>

\* lines 94-95: os.makedirs, outside the try
PyMakeDirs ==
    /\ fn = "python" /\ pc = "makedirs"
    /\ IF wd \in wsDirs
       THEN pc' = "stage" /\ UNCHANGED <<wsDirs, result>>
       ELSE \E ok \in BOOLEAN :
              IF ok THEN wsDirs' = wsDirs \cup {wd} /\ pc' = "stage" /\ UNCHANGED result
              ELSE Raise("OSError") /\ UNCHANGED wsDirs
    /\ UNCHANGED <<fn, inDocker, hostWs, wd, volPath, snippet, token, files,
                   explicit_packages, imports, imageOK, containers, ip, execLog,
                   exit_code, logs, now, loopStart, waitStart, session,
                   install_commands, hashSeed, modes, callback, session_id, events,
                   line_buffer, last_emit_time, log_positions, conc>>

\* lines 97-111: the two extraction passes, then temp.py is written, outside the try
PyStage ==
    /\ fn = "python" /\ pc = "stage"
    /\ explicit_packages' = ExplicitPackages(snippet)
    /\ LET code == StripFence(snippet) IN
       \E outcome \in AstParse(code), ok \in BOOLEAN :
         LET found == extract_imports(code, outcome) IN
         IF found.raised # ""
         THEN Raise(found.raised) /\ UNCHANGED <<imports, files, modes>>
         ELSE /\ imports' = found.imports
              /\ IF ok
                 THEN /\ files' = WriteFile("temp.py", code)
                      /\ modes' = Chmod("temp.py", StagedMode)
                      /\ pc' = "image"
                      /\ UNCHANGED result
                 ELSE Raise("OSError") /\ UNCHANGED <<files, modes>>
    /\ UNCHANGED <<fn, inDocker, hostWs, wd, volPath, snippet, token, wsDirs,
                   imageOK, containers, ip, execLog, exit_code, logs, now, loopStart,
                   waitStart, session, install_commands, hashSeed, callback,
                   session_id, events, line_buffer, last_emit_time, log_positions,
                   conc>>

\* line 114: install_docker_image() (lines 44-53); it raises when the daemon
\* cannot be reached or the image can be neither found nor pulled
PyImage ==
    /\ fn = "python" /\ pc = "image"
    /\ \E ok \in BOOLEAN :
         IF ok THEN imageOK' = "ok" /\ pc' = "wrapper" /\ UNCHANGED result
         ELSE imageOK' = "failed" /\ PyExcept("DockerException")
    /\ UNCHANGED <<fn, inDocker, hostWs, wd, volPath, snippet, token, wsDirs, files,
                   explicit_packages, imports, containers, ip, execLog, exit_code,
                   logs, now, loopStart, waitStart, session, install_commands,
                   hashSeed, modes, callback, session_id, events, line_buffer,
                   last_emit_time, log_positions, conc>>

\* lines 116-140: the wrapper script is built and written
PyWrapper ==
    /\ fn = "python" /\ pc = "wrapper"
    /\ install_commands' = InstallCommands(explicit_packages, SetOrder(hashSeed, imports))
    /\ \E ok \in BOOLEAN :
         IF ok
         THEN /\ files' = WriteFile("run_wrapper.sh", WrapperScript(install_commands'))
              /\ modes' = Chmod("run_wrapper.sh", StagedMode)
              /\ pc' = "run"
              /\ UNCHANGED result
         ELSE PyExcept("OSError") /\ UNCHANGED <<files, modes>>
    /\ UNCHANGED <<fn, inDocker, hostWs, wd, volPath, snippet, token, wsDirs,
                   explicit_packages, imports, imageOK, containers, ip, execLog,
                   exit_code, logs, now, loopStart, waitStart, session,
                   hashSeed, callback, session_id, events, line_buffer, last_emit_time,
                   log_positions, conc>>

\* lines 143-156: client.containers.run(..., detach=True)
PyRun ==
    /\ fn = "python" /\ pc = "run"
    /\ \E ok \in BOOLEAN :
         IF ok
         THEN /\ containers' = Append(containers, PyContainer(volPath, now))
              /\ ip' = 1
              /\ pc' = "wait"
              /\ UNCHANGED result
         ELSE PyExcept("APIError") /\ UNCHANGED <<containers, ip>>
    /\ UNCHANGED <<fn, inDocker, hostWs, wd, volPath, snippet, token, wsDirs, files,
                   explicit_packages, imports, imageOK, execLog, exit_code, logs, now,
                   loopStart, waitStart, session, install_commands, hashSeed, modes,
                   callback, session_id, events, line_buffer, last_emit_time,
                   log_positions, conc>>

\* lines 157-158: container.wait() has no timeout and returns when the container exits
PyWait ==
    /\ fn = "python" /\ pc = "wait"
    /\ containers[1].status = "exited"
    /\ exit_code' = containers[1].StatusCode
    /\ pc' = "logs"
    /\ UNCHANGED <<fn, inDocker, hostWs, wd, volPath, snippet, token, wsDirs, files,
                   explicit_packages, imports, imageOK, containers, ip, execLog, logs,
                   now, loopStart, waitStart, result, session, install_commands,
                   hashSeed, modes, callback, session_id, events, line_buffer,
                   last_emit_time, log_positions, conc>>

\* line 159: container.logs()
PyLogs ==
    /\ fn = "python" /\ pc = "logs"
    /\ logs' = containers[1].output
    /\ pc' = "remove"
    /\ UNCHANGED <<fn, inDocker, hostWs, wd, volPath, snippet, token, wsDirs, files,
                   explicit_packages, imports, imageOK, containers, ip, execLog,
                   exit_code, now, loopStart, waitStart, result, session,
                   install_commands, hashSeed, modes, callback, session_id, events,
                   line_buffer, last_emit_time, log_positions, conc>>

\* line 160: container.remove()
PyRemove ==
    /\ fn = "python" /\ pc = "remove"
    /\ containers' = [containers EXCEPT ![1].status = "removed"]
    /\ pc' = "cleanup"
    /\ UNCHANGED <<fn, inDocker, hostWs, wd, volPath, snippet, token, wsDirs, files,
                   explicit_packages, imports, imageOK, ip, execLog, exit_code, logs,
                   now, loopStart, waitStart, result, session, install_commands,
                   hashSeed, modes, callback, session_id, events, line_buffer,
                   last_emit_time, log_positions, conc>>

\* a docker API call of lines 157-160 raises (connection lost, daemon error)
PyApiError ==
    /\ fn = "python" /\ pc \in {"wait", "logs", "remove"}
    /\ PyExcept("APIError")
    /\ UNCHANGED <<fn, inDocker, hostWs, wd, volPath, snippet, token, wsDirs, files,
                   explicit_packages, imports, imageOK, containers, ip, execLog,
                   exit_code, logs, now, loopStart, waitStart, session,
                   install_commands, hashSeed, modes, callback, session_id, events,
                   line_buffer, last_emit_time, log_positions, conc>>

\* lines 162-166: the staged files are removed
PyCleanup ==
    /\ fn = "python" /\ pc = "cleanup"
    /\ files' = RemoveFiles({"temp.py", "run_wrapper.sh"})
    /\ modes' = [n \in DOMAIN files' |-> modes[n]]
    /\ pc' = "classify"
    /\ UNCHANGED <<fn, inDocker, hostWs, wd, volPath, snippet, token, wsDirs,
                   explicit_packages, imports, imageOK, containers, ip, execLog,
                   exit_code, logs, now, loopStart, waitStart, result, session,
                   install_commands, hashSeed, callback, session_id, events,
                   line_buffer, last_emit_time, log_positions, conc>>

\* lines 168-206: the verdict and the returned text
PyClassify ==
    /\ fn = "python" /\ pc = "classify"
    /\ result' = [kind |-> "str", value |-> Classified(exit_code, logs)]
    /\ pc' = "returned"
    /\ UNCHANGED <<fn, inDocker, hostWs, wd, volPath, snippet, token, wsDirs, files,
                   explicit_packages, imports, imageOK, containers, ip, execLog,
                   exit_code, logs, now, loopStart, waitStart, session,
                   install_commands, hashSeed, modes, callback, session_id, events,
                   line_buffer, last_emit_time, log_positions, conc>>

-----------------------------------------------------------------------------
(* The container of execute_python_code: bash /workspace/run_wrapper.sh *)

WrapperRunning ==
    /\ containers # <<>>
    /\ containers[1].command = "bash /workspace/run_wrapper.sh"
    /\ containers[1].status = "running"
    /\ "run_wrapper.sh" \in DOMAIN files
    /\ ip <= Len(files["run_wrapper.sh"])

\* bash has run line ip with status st; exits tells that the line ran exit
AfterLine(st, exits, out, dir) ==
    LET script == files["run_wrapper.sh"] IN
    IF exits \/ ip = Len(script)
    THEN /\ containers' = [containers EXCEPT ![1].status = "exited",
                                             ![1].StatusCode = st,
                                             ![1].output = out,
                                             ![1].cwd = dir,
                                             ![1].exitedAt = now]
         /\ ip' = Len(script) + 1
    ELSE /\ containers' = [containers EXCEPT ![1].output = out, ![1].cwd = dir]
         /\ ip' = ip + 1

\* bash runs a line before the last one
ShellInstall ==
    /\ WrapperRunning
    /\ LET line == files["run_wrapper.sh"][ip] IN
       /\ line # RunLine
       /\ \E o \in [1..Len(line) -> BOOLEAN] :
            /\ execLog' = Append(execLog,
                   [cid |-> 1, kind |-> LineKind(line), line |-> ip,
                    pipFailed |-> PipFailed(line, o), status |-> LineStatus(line, o)])
            /\ AfterLine(IF LineExits(line, o) THEN 1 ELSE LineStatus(line, o),
                         LineExits(line, o), containers[1].output \o LineStderr(line, o),
                         containers[1].cwd)
    /\ UNCHANGED <<fn, pc, inDocker, hostWs, wd, volPath, snippet, token, wsDirs, files,
                   explicit_packages, imports, imageOK, exit_code, logs, now, loopStart,
                   waitStart, result, session, install_commands, hashSeed, modes,
                   callback, session_id, events, line_buffer, last_emit_time,
                   log_positions, conc>>

\* bash runs python /workspace/temp.py and the snippet ends with status code
\* after printing out, its last os.chdir having left it in directory dir;
\* a snippet that never ends never takes this step
ShellRunSnippet(code, out, dir) ==
    /\ WrapperRunning
    /\ files["run_wrapper.sh"][ip] = RunLine
    /\ execLog' = Append(execLog,
           [cid |-> 1, kind |-> "run", line |-> ip, pipFailed |-> FALSE, status |-> code])
    /\ AfterLine(code, FALSE, containers[1].output \o out, dir)
    /\ UNCHANGED <<fn, pc, inDocker, hostWs, wd, volPath, snippet, token, wsDirs, files,
                   explicit_packages, imports, imageOK, exit_code, logs, now, loopStart,
                   waitStart, result, session, install_commands, hashSeed, modes,
                   callback, session_id, events, line_buffer, last_emit_time,
                   log_positions, conc>>

\* time passes where execute_github_copilot blocks on its running container:
\* in select of the streaming loop, in container.logs(follow=True) and in
\* container.wait; this is the clock that time_module.time() and the timeout
\* of container.wait read (execute_python_code reads no clock)
ClockTick ==
    /\ fn = "copilot"
    /\ containers # <<>>
    /\ containers[1].status = "running"
    /\ \/ pc = "loop" /\ now - loopStart <= timeout
       \/ pc = "wait" /\ now - waitStart <= wait_timeout
       \/ pc = "fallback" /\ now + Tick <= MaxTime
    /\ now' = now + Tick
    /\ UNCHANGED <<fn, pc, inDocker, hostWs, wd, volPath, snippet, token, wsDirs, files,
                   explicit_packages, imports, imageOK, containers, ip, execLog,
                   exit_code, logs, loopStart, waitStart, result, session,
                   install_commands, hashSeed, modes, callback, session_id, events,
                   line_buffer, last_emit_time, log_positions, conc>>

-----------------------------------------------------------------------------
(* execute_github_copilot *)

\* a classic token and a fine-grained one
Tokens == {<<"ghp_", "k1">>, <<"github_pat_", "k2">>}

\* the id the CLI wrote to .copilot_session.md
NewSessionId == <<"9f8e-7d6c">>

\* IsClassicToken with a fault: the token is compared with the prefix
IsClassicTokenExact(github_token) == github_token = <<"ghp_">>

\* line 467: github_token and github_token.startswith("ghp_")
IsClassicToken(github_token) ==
    github_token # None /\ github_token # <<>> /\ StartsWith(github_token, <<"ghp_">>)

\* error_msg of lines 468-477
ClassicTokenMessage == <<"Classic Personal Access Tokens (ghp_...) are NOT supported ...">>

\* the dict passed to stream_callback
Event(type, content) == [type |-> type, content |-> content]

-----------------------------------------------------------------------------
(* The text the CLI prints and how emit_buffered_content classifies it.  A  *)
(* piece of output is one token; the pattern lists of lines 621-724 are the *)
(* sets of the pieces that hold one of the list's patterns.                 *)

LongTexts == {"<long text 1>", "<long text 2>"}

\* len() of a piece of output
TokenLen(t) == IF t \in LongTexts THEN LongLen ELSE IF IsSpace(t) THEN 1 ELSE ShortLen

RECURSIVE TextLen(_)
TextLen(s) == IF s = <<>> THEN 0 ELSE TokenLen(Head(s)) + TextLen(Tail(s))

\* line 830: a buffer longer than this is emitted before its line is complete
PartialThreshold == 200

\* what the CLI may print: a progress line and the usage statistics; a long
\* line that arrives in two pieces; an error line
CopilotScripts ==
    {<<"Cloning the repository", "\n", "Total usage est: 1", "\n">>,
     <<"<long text 1>", "<long text 2>", "\n">>,
     <<"Error: token rejected", "\r", "Tests completed">>}

\* lines 613-617: starts with "Total ", "Usage by" or "Session exported"
StatsTexts == {"Total usage est: 1"}

\* linebreak_before_patterns, lines 622-636
LinebreakTexts == {"Cloning the repository"}

\* tool_start_patterns, lines 645-683
ToolStartTexts == {"Cloning the repository"}

\* tool_complete_patterns, lines 686-710
ToolCompleteTexts == {"Tests completed"}

\* line 733: starts with "error" or holds "error:"
ErrorTexts == {"Error: token rejected"}

\* intent_patterns, lines 713-723
IntentTexts == {"Let me check the tests"}

\* any(pattern in lower_content for pattern in patterns)
Has(stripped, texts) == \E i \in 1..Len(stripped) : stripped[i] \in texts

\* lines 639-741: the event for a piece of content
EmittedEvent(stripped) ==
    LET prefix == IF Has(stripped, LinebreakTexts) THEN <<"\n">> ELSE <<>> IN
    IF Has(stripped, ToolStartTexts) THEN Event("tool_start", prefix \o stripped)
    ELSE IF Has(stripped, ToolCompleteTexts) THEN Event("tool_complete", <<"\n">> \o stripped)
    ELSE IF Has(stripped, ErrorTexts) THEN Event("error", stripped)
    ELSE IF Has(stripped, IntentTexts)
         THEN Event("thinking", prefix \o <<"<thought> ">> \o stripped)
    ELSE Event("thinking", stripped)

\* emit_buffered_content(content, force), lines 595-741, on the streaming
\* state st = [buf, events, last] (line_buffer, the events passed so far,
\* last_emit_time); elapsed: 0.1 seconds have passed since the last emit
emit_buffered_content(content, force, elapsed, st) ==
    IF ~callback \/ Strip(content) = <<>> THEN st
    ELSE IF ~force /\ st.last # 0 /\ ~elapsed THEN st
    ELSE LET stripped == Strip(content)
             st2 == [st EXCEPT !.last = 1]
         IN  IF Head(stripped) \in StatsTexts THEN st2
             ELSE [st2 EXCEPT !.events = Append(@, EmittedEvent(stripped))]

RECURSIVE ProcessLines(_)
\* lines 820-827: the complete lines of the buffer are split off and emitted
ProcessLines(st) ==
    IF Contains(st.buf, <<"\n">>) \/ Contains(st.buf, <<"\r">>)
    THEN LET sep == IF Contains(st.buf, <<"\n">>) THEN <<"\n">> ELSE <<"\r">>
             k == IndexOf(st.buf, sep)
             line == SubSeq(st.buf, 1, k - 1)
             rest == SubSeq(st.buf, k + 1, Len(st.buf))
         IN  ProcessLines(emit_buffered_content(line, TRUE, TRUE, [st EXCEPT !.buf = rest]))
    ELSE st

\* lines 814-827: data is appended to the buffer and its lines processed
Received(data, st) == ProcessLines([st EXCEPT !.buf = @ \o data])

\* lines 829-831: a long buffer is emitted, and stays in line_buffer
PartialEmit(st, elapsed) ==
    IF TextLen(st.buf) > PartialThreshold
    THEN emit_buffered_content(st.buf, FALSE, elapsed, st)
    ELSE st

\* the streaming state of the call
Streaming == [buf |-> line_buffer, events |-> events, last |-> last_emit_time]

\* the tool calls the CLI may write to its log
ToolCalls == {"bash", "stop_bash"}

\* lines 296-311: the event for a tool call found in the log
ToolEvent(name) ==
    IF name = "bash" THEN Event("tool_start", <<"Running command">>)
    ELSE Event("tool_complete", <<"Stopped command">>)

\* parse_tool_calls_from_logs, lines 253-465: the events passed so far and the
\* log position after the new tool calls of the log have been passed on
ParsedLog(evs, log) ==
    IF ~callback THEN [events |-> evs, pos |-> log_positions]
    ELSE [events |-> evs \o [i \in 1..(Len(log) - log_positions) |->
                                 ToolEvent(log[log_positions + i])],
          pos |-> Len(log)]

CopilotCommand == "bash -c stdbuf -oL -eL copilot -p ..."

\* copilot_config_dir of line 552
CopilotConfigDir(working_directory) == PathJoin(working_directory, <<".copilot_config">>)

\* the volumes argument of lines 564-573
CopVolumes(docker_volume_path, copilot_config_dir) ==
    {[source |-> AbsPath(docker_volume_path), bind |-> <<"/", "workspace">>, mode |-> "rw"],
     [source |-> AbsPath(copilot_config_dir), bind |-> <<"/", "root", "/", ".copilot">>,
      mode |-> "rw"]}

\* the container client.containers.run gives for the arguments of lines 561-587
CopContainer(docker_volume_path, copilot_config_dir, t) ==
    [image |-> IMAGE_NAME,
     command |-> CopilotCommand,
     volumes |-> CopVolumes(docker_volume_path, copilot_config_dir),
     working_dir |-> <<"/", "workspace">>,
     cwd |-> <<"/", "workspace">>,
     network_disabled |-> FALSE,
     status |-> "running",
     StatusCode |-> 0,
     output |-> <<>>,
     startedAt |-> t,
     exitedAt |-> 0,
     killed |-> FALSE,
     toolLog |-> <<>>]

CopDict(response, sid, success) ==
    [kind |-> "dict",
     value |-> [response |-> response, session_id |-> sid, success |-> success]]

\* the except clause of lines 951-957
CopExcept(e) ==
    /\ result' = CopDict(<<"Error running GitHub Copilot: ", e>>, session_id, FALSE)
    /\ pc' = "returned"

\* lines 467-500: the token check, the default directory and the volume path
CopEnter(prompt, github_token, working_directory, sid, cb) ==
    /\ pc = "idle"
    /\ fn' = "copilot"
    /\ snippet' = prompt
    /\ token' = github_token
    /\ session_id' = sid
    /\ callback' = cb
    /\ IF IsClassicToken(github_token)
       THEN /\ events' = IF cb THEN <<Event("error", ClassicTokenMessage)>> ELSE <<>>
            /\ result' = CopDict(<<"Error: ">> \o ClassicTokenMessage, None, FALSE)
            /\ pc' = "returned"
            /\ UNCHANGED <<wd, volPath>>
       ELSE /\ wd' = DefaultWorkingDir(working_directory)
            /\ volPath' = DockerVolumePath(wd', inDocker, hostWs)
            /\ pc' = "makedirs"
            /\ UNCHANGED <<result, events>>
    /\ UNCHANGED <<inDocker, hostWs, wsDirs, files, explicit_packages, imports,
                   imageOK, containers, ip, execLog, exit_code, logs, now, loopStart,
                   waitStart, session, install_commands, hashSeed, modes, line_buffer,
                   last_emit_time, log_positions, conc>>

\* lines 502-503: os.makedirs, outside the try
CopMakeDirs ==
    /\ fn = "copilot" /\ pc = "makedirs"
    /\ IF wd \in wsDirs
       THEN pc' = "image" /\ UNCHANGED <<wsDirs, result>>
       ELSE \E ok \in BOOLEAN :
              IF ok THEN wsDirs' = wsDirs \cup {wd} /\ pc' = "image" /\ UNCHANGED result
              ELSE Raise("OSError") /\ UNCHANGED wsDirs
    /\ UNCHANGED <<fn, inDocker, hostWs, wd, volPath, snippet, token, files,
                   explicit_packages, imports, imageOK, containers, ip, execLog,
                   exit_code, logs, now, loopStart, waitStart, session,
                   install_commands, hashSeed, modes, callback, session_id, events,
                   line_buffer, last_emit_time, log_positions, conc>>

\* line 506: install_docker_image()
CopImage ==
    /\ fn = "copilot" /\ pc = "image"
    /\ \E ok \in BOOLEAN :
         IF ok THEN imageOK' = "ok" /\ pc' = "stage" /\ UNCHANGED result
         ELSE imageOK' = "failed" /\ CopExcept("DockerException")
    /\ UNCHANGED <<fn, inDocker, hostWs, wd, volPath, snippet, token, wsDirs, files,
                   explicit_packages, imports, containers, ip, execLog, exit_code,
                   logs, now, loopStart, waitStart, session, install_commands,
                   hashSeed, modes, callback, session_id, events, line_buffer,
                   last_emit_time, log_positions, conc>>

\* lines 508-535: the command is built, the callback told that the CLI starts
\* and the prompt file written
CopStage ==
    /\ fn = "copilot" /\ pc = "stage"
    /\ events' = IF callback
                 THEN Append(events, Event("info", <<"Starting GitHub Copilot">>))
                 ELSE events
    /\ \E ok \in BOOLEAN :
         IF ok
         THEN /\ files' = WriteFile(".copilot_prompt.txt", snippet)
              /\ modes' = Opened(".copilot_prompt.txt")
              /\ pc' = "configdir"
              /\ UNCHANGED result
         ELSE CopExcept("OSError") /\ UNCHANGED <<files, modes>>
    /\ UNCHANGED <<fn, inDocker, hostWs, wd, volPath, snippet, token, wsDirs,
                   explicit_packages, imports, imageOK, containers, ip, execLog,
                   exit_code, logs, now, loopStart, waitStart, session,
                   install_commands, hashSeed, callback, session_id, line_buffer,
                   last_emit_time, log_positions, conc>>

\* lines 537-558: the config directory is created
CopConfigDir ==
    /\ fn = "copilot" /\ pc = "configdir"
    /\ IF CopilotConfigDir(wd) \in wsDirs
       THEN pc' = "run" /\ UNCHANGED <<wsDirs, result>>
       ELSE \E ok \in BOOLEAN :
              IF ok
              THEN wsDirs' = wsDirs \cup {CopilotConfigDir(wd)} /\ pc' = "run"
                   /\ UNCHANGED result
              ELSE CopExcept("OSError") /\ UNCHANGED wsDirs
    /\ UNCHANGED <<fn, inDocker, hostWs, wd, volPath, snippet, token, files,
                   explicit_packages, imports, imageOK, containers, ip, execLog,
                   exit_code, logs, now, loopStart, waitStart, session,
                   install_commands, hashSeed, modes, callback, session_id, events,
                   line_buffer, last_emit_time, log_positions, conc>>

\* lines 560-587: client.containers.run(..., detach=True, tty=True)
CopRun ==
    /\ fn = "copilot" /\ pc = "run"
    /\ \E ok \in BOOLEAN :
         IF ok
         THEN /\ containers' = Append(containers,
                                      CopContainer(volPath, CopilotConfigDir(wd), now))
              /\ pc' = "attach"
              /\ UNCHANGED result
         ELSE CopExcept("APIError") /\ UNCHANGED containers
    /\ UNCHANGED <<fn, inDocker, hostWs, wd, volPath, snippet, token, wsDirs, files,
                   explicit_packages, imports, imageOK, ip, execLog, exit_code, logs,
                   now, loopStart, waitStart, session, install_commands, hashSeed,
                   modes, callback, session_id, events, line_buffer, last_emit_time,
                   log_positions, conc>>

\* lines 743-760: the socket is attached and the loop's clock started; when
\* that raises, the except clause of line 839 turns to container.logs
CopAttach ==
    /\ fn = "copilot" /\ pc = "attach"
    /\ \E ok \in BOOLEAN :
         IF ok THEN loopStart' = now /\ pc' = "loop"
         ELSE pc' = "fallback" /\ UNCHANGED loopStart
    /\ UNCHANGED <<fn, inDocker, hostWs, wd, volPath, snippet, token, wsDirs, files,
                   explicit_packages, imports, imageOK, containers, ip, execLog,
                   exit_code, logs, now, waitStart, result, session, install_commands,
                   hashSeed, modes, callback, session_id, events, line_buffer,
                   last_emit_time, log_positions, conc>>

\* lines 764-796: the container no longer runs; what is left of its output is
\* read, its complete lines are emitted, the tool log is parsed a last time
\* and the loop ends
CopLoopExited ==
    /\ fn = "copilot" /\ pc = "loop"
    /\ containers[1].status # "running"
    /\ LET data == SubSeq(containers[1].output, Len(logs) + 1, Len(containers[1].output))
           st == Received(data, Streaming)
           parsed == ParsedLog(st.events, containers[1].toolLog)
       IN  /\ logs' = logs \o data
           /\ line_buffer' = st.buf
           /\ last_emit_time' = st.last
           /\ events' = parsed.events
           /\ log_positions' = parsed.pos
    /\ pc' = "flush"
    /\ UNCHANGED <<fn, inDocker, hostWs, wd, volPath, snippet, token, wsDirs, files,
                   explicit_packages, imports, imageOK, containers, ip, execLog,
                   exit_code, now, loopStart, waitStart, result, session,
                   install_commands, hashSeed, modes, callback, session_id, conc>>

\* lines 798-801: the container still runs after timeout seconds; the loop ends
CopLoopTimeout ==
    /\ fn = "copilot" /\ pc = "loop"
    /\ containers[1].status = "running"
    /\ now - loopStart > timeout
    /\ pc' = "flush"
    /\ UNCHANGED <<fn, inDocker, hostWs, wd, volPath, snippet, token, wsDirs, files,
                   explicit_packages, imports, imageOK, containers, ip, execLog,
                   exit_code, logs, now, loopStart, waitStart, result, session,
                   install_commands, hashSeed, modes, callback, session_id, events,
                   line_buffer, last_emit_time, log_positions, conc>>

\* lines 803-835: one more round of the loop, which parses the tool log and
\* reads what the socket has
CopLoopRead ==
    /\ fn = "copilot" /\ pc = "loop"
    /\ containers[1].status = "running"
    /\ ~(now - loopStart > timeout)
    /\ LET parsed == ParsedLog(events, containers[1].toolLog)
           data == SubSeq(containers[1].output, Len(logs) + 1, Len(containers[1].output))
       IN  /\ log_positions' = parsed.pos
           /\ logs' = logs \o data
           /\ \E elapsed \in BOOLEAN :
                LET st == IF data = <<>> THEN [Streaming EXCEPT !.events = parsed.events]
                          ELSE PartialEmit(
                                  Received(data, [Streaming EXCEPT !.events = parsed.events]),
                                  elapsed)
                IN  /\ line_buffer' = st.buf
                    /\ last_emit_time' = st.last
                    /\ events' = st.events
    /\ UNCHANGED <<fn, pc, inDocker, hostWs, wd, volPath, snippet, token, wsDirs,
                   files, explicit_packages, imports, imageOK, containers, ip, execLog,
                   exit_code, now, loopStart, waitStart, result, session,
                   install_commands, hashSeed, modes, callback, session_id, conc>>

\* lines 841-852: container.logs(stream=True, follow=True) gives the output
\* from its start and ends when the container has exited
CopFallback ==
    /\ fn = "copilot" /\ pc = "fallback"
    /\ containers[1].status # "running"
    /\ LET st == Received(containers[1].output, Streaming)
       IN  /\ logs' = logs \o containers[1].output
           /\ line_buffer' = st.buf
           /\ last_emit_time' = st.last
           /\ events' = st.events
    /\ pc' = "flush"
    /\ UNCHANGED <<fn, inDocker, hostWs, wd, volPath, snippet, token, wsDirs, files,
                   explicit_packages, imports, imageOK, containers, ip, execLog,
                   exit_code, now, loopStart, waitStart, result, session,
                   install_commands, hashSeed, modes, callback, session_id,
                   log_positions, conc>>

\* line 764: container.reload() raises in the loop; the except clause of line
\* 839 turns to container.logs, which gives the output from its start again
CopLoopError ==
    /\ fn = "copilot" /\ pc = "loop"
    /\ pc' = "fallback"
    /\ UNCHANGED <<fn, inDocker, hostWs, wd, volPath, snippet, token, wsDirs, files,
                   explicit_packages, imports, imageOK, containers, ip, execLog,
                   exit_code, logs, now, loopStart, waitStart, result, session,
                   install_commands, hashSeed, modes, callback, session_id, events,
                   line_buffer, last_emit_time, log_positions, conc>>

\* lines 853-854: container.logs raises
CopFallbackError ==
    /\ fn = "copilot" /\ pc = "fallback"
    /\ pc' = "flush"
    /\ UNCHANGED <<fn, inDocker, hostWs, wd, volPath, snippet, token, wsDirs, files,
                   explicit_packages, imports, imageOK, containers, ip, execLog,
                   exit_code, logs, now, loopStart, waitStart, result, session,
                   install_commands, hashSeed, modes, callback, session_id, events,
                   line_buffer, last_emit_time, log_positions, conc>>

\* lines 856-862: the rest of the buffer is emitted and container.wait entered
CopFlush ==
    /\ fn = "copilot" /\ pc = "flush"
    /\ LET st == IF Strip(line_buffer) # <<>>
                 THEN emit_buffered_content(line_buffer, TRUE, TRUE, Streaming)
                 ELSE Streaming
       IN  /\ last_emit_time' = st.last
           /\ events' = st.events
    /\ waitStart' = now
    /\ pc' = "wait"
    /\ UNCHANGED <<fn, inDocker, hostWs, wd, volPath, snippet, token, wsDirs, files,
                   explicit_packages, imports, imageOK, containers, ip, execLog,
                   exit_code, logs, now, loopStart, result, session, install_commands,
                   hashSeed, modes, callback, session_id, line_buffer, log_positions,
                   conc>>

\* lines 862-863: container.wait returns the status of the exited container
CopWait ==
    /\ fn = "copilot" /\ pc = "wait"
    /\ containers[1].status = "exited"
    /\ exit_code' = containers[1].StatusCode
    /\ pc' = "remove"
    /\ UNCHANGED <<fn, inDocker, hostWs, wd, volPath, snippet, token, wsDirs, files,
                   explicit_packages, imports, imageOK, containers, ip, execLog, logs,
                   now, loopStart, waitStart, result, session, install_commands,
                   hashSeed, modes, callback, session_id, events, line_buffer,
                   last_emit_time, log_positions, conc>>

\* lines 864-866: container.wait raises after wait_timeout seconds
CopWaitTimeout ==
    /\ fn = "copilot" /\ pc = "wait"
    /\ containers[1].status = "running"
    /\ now - waitStart > wait_timeout
    /\ exit_code' = 1
    /\ pc' = "remove"
    /\ UNCHANGED <<fn, inDocker, hostWs, wd, volPath, snippet, token, wsDirs, files,
                   explicit_packages, imports, imageOK, containers, ip, execLog, logs,
                   now, loopStart, waitStart, result, session, install_commands,
                   hashSeed, modes, callback, session_id, events, line_buffer,
                   last_emit_time, log_positions, conc>>

\* lines 864-866: container.wait raises for another reason
CopWaitError ==
    /\ fn = "copilot" /\ pc = "wait"
    /\ exit_code' = 1
    /\ pc' = "remove"
    /\ UNCHANGED <<fn, inDocker, hostWs, wd, volPath, snippet, token, wsDirs, files,
                   explicit_packages, imports, imageOK, containers, ip, execLog, logs,
                   now, loopStart, waitStart, result, session, install_commands,
                   hashSeed, modes, callback, session_id, events, line_buffer,
                   last_emit_time, log_positions, conc>>

\* line 868: container.remove(force=True) kills a container that still runs
CopRemove ==
    /\ fn = "copilot" /\ pc = "remove"
    /\ containers' = [containers EXCEPT
                        ![1].status = "removed",
                        ![1].killed = (containers[1].status = "running"),
                        ![1].exitedAt = IF containers[1].status = "running"
                                        THEN now ELSE containers[1].exitedAt]
    /\ pc' = "cleanup"
    /\ UNCHANGED <<fn, inDocker, hostWs, wd, volPath, snippet, token, wsDirs, files,
                   explicit_packages, imports, imageOK, ip, execLog, exit_code, logs,
                   now, loopStart, waitStart, result, session, install_commands,
                   hashSeed, modes, callback, session_id, events, line_buffer,
                   last_emit_time, log_positions, conc>>

\* line 868: container.remove raises
CopRemoveError ==
    /\ fn = "copilot" /\ pc = "remove"
    /\ CopExcept("APIError")
    /\ UNCHANGED <<fn, inDocker, hostWs, wd, volPath, snippet, token, wsDirs, files,
                   explicit_packages, imports, imageOK, containers, ip, execLog,
                   exit_code, logs, now, loopStart, waitStart, session,
                   install_commands, hashSeed, modes, callback, session_id, events,
                   line_buffer, last_emit_time, log_positions, conc>>

\* lines 870-901: the prompt file, the log directory and the session file are removed
CopCleanup ==
    /\ fn = "copilot" /\ pc = "cleanup"
    /\ files' = RemoveFiles({".copilot_prompt.txt"})
    /\ modes' = [n \in DOMAIN files' |-> modes[n]]
    /\ pc' = "result"
    /\ UNCHANGED <<fn, inDocker, hostWs, wd, volPath, snippet, token, wsDirs,
                   explicit_packages, imports, imageOK, containers, ip, execLog,
                   exit_code, logs, now, loopStart, waitStart, result, session,
                   install_commands, hashSeed, callback, session_id, events,
                   line_buffer, last_emit_time, log_positions, conc>>

\* lines 903-949 with the complete event sent before the exit code is tested
CopResultCompleteFirst ==
    /\ fn = "copilot" /\ pc = "result"
    /\ \E result_session_id \in {session_id, NewSessionId} :
         result' = CopDict(logs, result_session_id, exit_code = 0)
    /\ events' = IF callback
                 THEN Append(events, Event("complete", <<"GitHub Copilot completed successfully">>))
                 ELSE events
    /\ pc' = "returned"
    /\ UNCHANGED <<fn, inDocker, hostWs, wd, volPath, snippet, token, wsDirs, files,
                   explicit_packages, imports, imageOK, containers, ip, execLog,
                   exit_code, logs, now, loopStart, waitStart, session,
                   install_commands, hashSeed, modes, callback, session_id,
                   line_buffer, last_emit_time, log_positions, conc>>

\* lines 903-949: the returned dict, after the complete event of a run that
\* ended with status 0
CopResult ==
    /\ fn = "copilot" /\ pc = "result"
    /\ \E result_session_id \in {session_id, NewSessionId} :
         result' = CopDict(logs, result_session_id, exit_code = 0)
    /\ events' = IF exit_code = 0 /\ callback
                 THEN Append(events, Event("complete", <<"GitHub Copilot completed successfully">>))
                 ELSE events
    /\ pc' = "returned"
    /\ UNCHANGED <<fn, inDocker, hostWs, wd, volPath, snippet, token, wsDirs, files,
                   explicit_packages, imports, imageOK, containers, ip, execLog,
                   exit_code, logs, now, loopStart, waitStart, session,
                   install_commands, hashSeed, modes, callback, session_id,
                   line_buffer, last_emit_time, log_positions, conc>>

\* the copilot CLI in the container prints the next piece of script
CopilotPrint(script) ==
    /\ containers # <<>>
    /\ containers[1].command = CopilotCommand
    /\ containers[1].status = "running"
    /\ Len(containers[1].output) < Len(script)
    /\ StartsWith(script, containers[1].output)
    /\ containers' = [containers EXCEPT
                        ![1].output = Append(@, script[Len(containers[1].output) + 1])]
    /\ UNCHANGED <<fn, pc, inDocker, hostWs, wd, volPath, snippet, token, wsDirs,
                   files, explicit_packages, imports, imageOK, ip, execLog, exit_code,
                   logs, now, loopStart, waitStart, result, session, install_commands,
                   hashSeed, modes, callback, session_id, events, line_buffer,
                   last_emit_time, log_positions, conc>>

\* the copilot CLI in the container writes a tool call to a log file in
\* .copilot_logs
CopilotLog(name) ==
    /\ containers # <<>>
    /\ containers[1].command = CopilotCommand
    /\ containers[1].status = "running"
    /\ Len(containers[1].toolLog) < MaxToolCalls
    /\ containers' = [containers EXCEPT ![1].toolLog = Append(@, name)]
    /\ UNCHANGED <<fn, pc, inDocker, hostWs, wd, volPath, snippet, token, wsDirs,
                   files, explicit_packages, imports, imageOK, ip, execLog, exit_code,
                   logs, now, loopStart, waitStart, result, session, install_commands,
                   hashSeed, modes, callback, session_id, events, line_buffer,
                   last_emit_time, log_positions, conc>>

\* the copilot CLI in the container ends with status code
CopilotExit(code) ==
    /\ containers # <<>>
    /\ containers[1].command = CopilotCommand
    /\ containers[1].status = "running"
    /\ containers' = [containers EXCEPT ![1].status = "exited",
                                        ![1].StatusCode = code,
                                        ![1].exitedAt = now]
    /\ execLog' = Append(execLog,
           [cid |-> 1, kind |-> "copilot", line |-> 1, pipFailed |-> FALSE, status |-> code])
    /\ UNCHANGED <<fn, pc, inDocker, hostWs, wd, volPath, snippet, token, wsDirs, files,
                   explicit_packages, imports, imageOK, ip, exit_code, logs, now,
                   loopStart, waitStart, result, session, install_commands, hashSeed,
                   modes, callback, session_id, events, line_buffer, last_emit_time,
                   log_positions, conc>>

-----------------------------------------------------------------------------

\* the steps of the engine that its own code takes when they are possible
PyStep ==
    \/ PyMakeDirs \/ PyStage \/ PyImage \/ PyWrapper \/ PyRun \/ PyWait \/ PyLogs
    \/ PyRemove \/ PyCleanup \/ PyClassify

CopStep ==
    \/ CopMakeDirs \/ CopImage \/ CopStage \/ CopConfigDir \/ CopRun \/ CopAttach
    \/ CopLoopExited \/ CopLoopTimeout \/ CopFallback \/ CopFlush \/ CopWait
    \/ CopWaitTimeout \/ CopRemove \/ CopCleanup \/ CopResult

EngineStep == PyStep \/ CopStep

Next ==
    \/ \E code \in Snippets, w \in WorkingDirs : PyEnter(code, w)
    \/ \E t \in Tokens, w \in WorkingDirs : CopEnter(Prompt, t, w, None, FALSE)
    \/ EngineStep
    \/ CopLoopRead
    \/ CopLoopError
    \/ PyApiError
    \/ CopFallbackError
    \/ CopWaitError
    \/ CopRemoveError
    \/ ShellInstall
    \/ \E code \in ExitCodes, out \in SampleLogs, dir \in SnippetDirs :
          ShellRunSnippet(code, out, dir)
    \/ \E script \in SampleLogs : CopilotPrint(script)
    \/ \E code \in ExitCodes : CopilotExit(code)
    \/ ClockTick

Spec == Init /\ [][Next]_vars

\* the call is over and its caller makes the next call on the same working
\* directory, from the same host process or from one started since; what the
\* call left in its container and what it resolved is kept for comparison
NextCall ==
    /\ pc \in {"returned", "raised"}
    /\ session.calls + 1 < MaxCalls
    /\ LET ran == \E i \in 1..Len(execLog) : execLog[i].kind = "run"
           resolved == fn = "python" /\ imageOK = "ok"
       IN  session' = [calls |-> session.calls + 1,
                       cwd |-> IF ran THEN containers[1].cwd ELSE session.cwd,
                       snippet |-> IF resolved THEN snippet ELSE session.snippet,
                       install |-> IF resolved THEN install_commands ELSE session.install]
    /\ hashSeed' \in HashSeeds
    /\ fn' = "none" /\ pc' = "idle"
    /\ wd' = None /\ volPath' = None
    /\ snippet' = Prompt /\ token' = None
    /\ explicit_packages' = <<>> /\ imports' = {} /\ install_commands' = <<>>
    /\ imageOK' = "unknown"
    /\ containers' = <<>> /\ ip' = 1 /\ execLog' = <<>>
    /\ exit_code' = 0 /\ logs' = <<>>
    /\ loopStart' = 0 /\ waitStart' = 0
    /\ result' = NoResult
    /\ callback' = FALSE /\ session_id' = None /\ events' = <<>>
    /\ line_buffer' = <<>> /\ last_emit_time' = 0 /\ log_positions' = 0
    /\ UNCHANGED <<inDocker, hostWs, wsDirs, files, now, modes, conc>>

\* calls of execute_github_copilot on the default working directory, with and
\* without a stream_callback and a session to resume
InitCopilot ==
    /\ Init
    /\ inDocker = FALSE
    /\ hostWs = None
    /\ hashSeed = 1
    /\ wsDirs = {}

\* the optional arguments of a call: none, or a session to resume and a callback
CopilotCalls ==
    {[session_id |-> None, stream_callback |-> FALSE],
     [session_id |-> <<"0a1b-2c3d">>, stream_callback |-> TRUE]}

CopilotNext ==
    \/ \E t \in Tokens, args \in CopilotCalls :
          CopEnter(Prompt, t, None, args.session_id, args.stream_callback)
    \/ CopStep
    \/ CopLoopRead
    \/ CopLoopError
    \/ CopFallbackError
    \/ CopWaitError
    \/ CopRemoveError
    \/ \E script \in CopilotScripts : CopilotPrint(script)
    \/ \E name \in ToolCalls : CopilotLog(name)
    \/ \E code \in ExitCodes : CopilotExit(code)
    \/ ClockTick

SpecCopilot == InitCopilot /\ [][CopilotNext]_vars

\* the snippets with two or more imports
SessionSnippets ==
    {code \in Snippets : \E outcome \in AstParse(StripFence(code)) :
        Cardinality(extract_imports(StripFence(code), outcome).imports) >= 2}

InitSession ==
    /\ Init
    /\ inDocker = FALSE
    /\ hostWs = None
    /\ wsDirs = AllWorkingDirs

\* calls of execute_python_code made one after the other on the default
\* working directory
SessionNext ==
    \/ \E code \in SessionSnippets : PyEnter(code, None)
    \/ PyStep
    \/ PyApiError
    \/ ShellInstall
    \/ \E code \in ExitCodes, dir \in SnippetDirs : ShellRunSnippet(code, <<"2">>, dir)
    \/ NextCall

SpecSession == InitSession /\ [][SessionNext]_vars

-----------------------------------------------------------------------------
(* Two calls of execute_python_code at the same time on one working directory *)

CallIds == {1, 2}

\* snippets that parse, with different staged texts and different wrapper scripts
ConcurrentSnippets == {PlainSnippet, DirectiveLastSnippet}

\* lines 77-95: the locals of a call that has been entered; the directory exists
NewCall(code) ==
    [pc |-> "stage", code |-> code, explicit_packages |-> <<>>, imports |-> {},
     install_commands |-> <<>>, container |-> "none", phase |-> "none",
     script |-> <<>>, ip |-> 1, ran |-> <<>>, garbled |-> FALSE, StatusCode |-> 0,
     output |-> <<>>, exit_code |-> 0, logs |-> <<>>, result |-> NoResult]

\* the text a call writes to temp.py (lines 101-110)
StagedSnippet(c) == StripFence(conc[c].code)

\* the text a call writes to run_wrapper.sh (lines 116-139)
StagedWrapper(c) == WrapperScript(conc[c].install_commands)

\* the container of call c is alive
Alive(c) == c \in DOMAIN conc /\ conc[c].container = "running"

\* bash of call c's container holds run_wrapper.sh open
HoldsScript(c) == Alive(c) /\ conc[c].phase = "script"

\* a step of a concurrent call leaves the locals of the single call alone
OnlyConc ==
    UNCHANGED <<fn, pc, inDocker, hostWs, wd, volPath, snippet, token, wsDirs,
                   explicit_packages, imports, imageOK, containers, ip, execLog,
                   exit_code, logs, now, loopStart, waitStart, result, session,
                   install_commands, hashSeed, callback, session_id, events,
                   line_buffer, last_emit_time, log_positions>>

\* lines 77-95: a call is entered with a snippet no other call has
CcEnter(c, code) ==
    /\ fn = "none"
    /\ c \notin DOMAIN conc
    /\ \A d \in DOMAIN conc : conc[d].code # code
    /\ DefaultWorkingDir(None) \in wsDirs
    /\ conc' = (c :> NewCall(code)) @@ conc
    /\ UNCHANGED <<files, modes>>
    /\ OnlyConc

\* lines 97-111: the extraction passes; open("temp.py", "w") truncates the file
\* when it exists and the text is written to it
CcStage(c) ==
    /\ c \in DOMAIN conc /\ conc[c].pc = "stage"
    /\ LET code == StripFence(conc[c].code) IN
       \E outcome \in AstParse(code) :
         LET found == extract_imports(code, outcome) IN
         /\ found.raised = ""
         /\ conc' = [conc EXCEPT ![c].pc = "wrapper",
                                 ![c].explicit_packages = ExplicitPackages(conc[c].code),
                                 ![c].imports = found.imports]
         /\ files' = WriteFile("temp.py", code)
         /\ modes' = Chmod("temp.py", StagedMode)
    /\ OnlyConc

\* lines 114-140: install_docker_image, the install lines, and run_wrapper.sh is
\* opened with "w" and written. When the file exists it is truncated in place:
\* a bash that holds it open reads on at its offset in the new text
CcWrapper(c) ==
    /\ c \in DOMAIN conc /\ conc[c].pc = "wrapper"
    /\ LET commands == InstallCommands(conc[c].explicit_packages,
                                       SetOrder(hashSeed, conc[c].imports))
           script == WrapperScript(commands)
       IN  /\ conc' = [d \in DOMAIN conc |->
                         IF d = c
                         THEN [conc[d] EXCEPT !.pc = "run", !.install_commands = commands]
                         ELSE IF HoldsScript(d) /\ "run_wrapper.sh" \in DOMAIN files
                                 /\ conc[d].script # script
                              THEN [conc[d] EXCEPT !.garbled = TRUE]
                              ELSE conc[d]]
           /\ files' = WriteFile("run_wrapper.sh", script)
           /\ modes' = Chmod("run_wrapper.sh", StagedMode)
    /\ OnlyConc

\* lines 143-156: client.containers.run(..., detach=True)
CcRun(c) ==
    /\ c \in DOMAIN conc /\ conc[c].pc = "run"
    /\ conc' = [conc EXCEPT ![c].pc = "wait", ![c].container = "running",
                            ![c].phase = "start"]
    /\ UNCHANGED <<files, modes>>
    /\ OnlyConc

\* lines 157-158: container.wait() returns when the container has exited
CcWait(c) ==
    /\ c \in DOMAIN conc /\ conc[c].pc = "wait"
    /\ conc[c].container = "exited"
    /\ conc' = [conc EXCEPT ![c].pc = "remove", ![c].exit_code = conc[c].StatusCode]
    /\ UNCHANGED <<files, modes>>
    /\ OnlyConc

\* lines 159-160: container.logs() and container.remove()
CcRemove(c) ==
    /\ c \in DOMAIN conc /\ conc[c].pc = "remove"
    /\ conc' = [conc EXCEPT ![c].pc = "cleanup", ![c].logs = conc[c].output,
                            ![c].container = "removed"]
    /\ UNCHANGED <<files, modes>>
    /\ OnlyConc

\* lines 162-166: temp.py and run_wrapper.sh are removed when they exist,
\* whichever call wrote them last
CcCleanup(c) ==
    /\ c \in DOMAIN conc /\ conc[c].pc = "cleanup"
    /\ conc' = [conc EXCEPT ![c].pc = "classify"]
    /\ files' = RemoveFiles({"temp.py", "run_wrapper.sh"})
    /\ modes' = [n \in DOMAIN files' |-> modes[n]]
    /\ OnlyConc

\* lines 168-206: the verdict and the returned text
CcClassify(c) ==
    /\ c \in DOMAIN conc /\ conc[c].pc = "classify"
    /\ conc' = [conc EXCEPT ![c].pc = "returned",
                  ![c].result = [kind |-> "str",
                                 value |-> Classified(conc[c].exit_code, conc[c].logs)]]
    /\ UNCHANGED <<files, modes>>
    /\ OnlyConc

\* lines 207-209: install_docker_image or a docker API call of lines 143-160
\* raises; the call returns the error text and removes nothing
CcApiError(c) ==
    /\ c \in DOMAIN conc /\ conc[c].pc \in {"wrapper", "run", "wait", "remove"}
    /\ conc' = [conc EXCEPT ![c].pc = "returned",
                  ![c].result = [kind |-> "str",
                                 value |-> <<"Error: ", "APIError", ExecutionFailedNote>>]]
    /\ UNCHANGED <<files, modes>>
    /\ OnlyConc

\* the container ends with the status and the output
Exited(c, st, out) ==
    [conc EXCEPT ![c].container = "exited", ![c].phase = "done",
                 ![c].StatusCode = st, ![c].output = out]

NoSuchScript == <<"bash: /workspace/run_wrapper.sh: No such file or directory">>
NoSuchSnippet == <<"python: can't open file '/workspace/temp.py'">>
ScriptSyntaxError == <<"/workspace/run_wrapper.sh: syntax error">>

\* line 145: bash opens /workspace/run_wrapper.sh, the file that is in the
\* shared directory at that time; without one it ends with status 127
CcBashOpen(c) ==
    /\ Alive(c) /\ conc[c].phase = "start"
    /\ IF "run_wrapper.sh" \in DOMAIN files
       THEN conc' = [conc EXCEPT ![c].phase = "script", ![c].ip = 1,
                                 ![c].script = files["run_wrapper.sh"]]
       ELSE conc' = Exited(c, 127, NoSuchScript)
    /\ UNCHANGED <<files, modes>>
    /\ OnlyConc

\* bash runs a line before the last one
CcBashInstall(c) ==
    /\ HoldsScript(c) /\ ~conc[c].garbled
    /\ LET line == conc[c].script[conc[c].ip] IN
       /\ line # RunLine
       /\ \E o \in [1..Len(line) -> BOOLEAN] :
            LET out == conc[c].output \o LineStderr(line, o) IN
            IF LineExits(line, o)
            THEN conc' = Exited(c, 1, out)
            ELSE conc' = [conc EXCEPT ![c].ip = conc[c].ip + 1, ![c].output = out]
    /\ UNCHANGED <<files, modes>>
    /\ OnlyConc

\* line 135: bash runs python /workspace/temp.py; python opens the file that is
\* in the shared directory at that time and runs its text, or ends with
\* status 2 when there is none
CcBashRunSnippet(c, code) ==
    /\ HoldsScript(c) /\ ~conc[c].garbled
    /\ conc[c].script[conc[c].ip] = RunLine
    /\ IF "temp.py" \in DOMAIN files
       THEN conc' = [Exited(c, code, conc[c].output \o <<"2">>)
                        EXCEPT ![c].ran = <<files["temp.py"]>>]
       ELSE conc' = Exited(c, 2, conc[c].output \o NoSuchSnippet)
    /\ UNCHANGED <<files, modes>>
    /\ OnlyConc

\* the script was rewritten under a bash that holds it open: bash reads on at
\* its offset in the other call's text, which leaves it with a text that is
\* no script (status 2) or with the rest of the other call's script
CcBashGarbled(c) ==
    /\ HoldsScript(c) /\ conc[c].garbled
    /\ \/ conc' = Exited(c, 2, conc[c].output \o ScriptSyntaxError)
       \/ /\ "run_wrapper.sh" \in DOMAIN files
          /\ conc' = [conc EXCEPT ![c].garbled = FALSE,
                                  ![c].script = files["run_wrapper.sh"],
                                  ![c].ip = Len(files["run_wrapper.sh"])]
    /\ UNCHANGED <<files, modes>>
    /\ OnlyConc

InitConcurrent ==
    /\ Init
    /\ inDocker = FALSE
    /\ hostWs = None
    /\ wsDirs = AllWorkingDirs

ConcurrentNext ==
    \E c \in CallIds :
        \/ \E code \in ConcurrentSnippets : CcEnter(c, code)
        \/ CcStage(c)
        \/ CcWrapper(c)
        \/ CcRun(c)
        \/ CcWait(c)
        \/ CcRemove(c)
        \/ CcCleanup(c)
        \/ CcClassify(c)
        \/ CcApiError(c)
        \/ CcBashOpen(c)
        \/ CcBashInstall(c)
        \/ \E code \in ExitCodes : CcBashRunSnippet(c, code)
        \/ CcBashGarbled(c)

SpecConcurrent == InitConcurrent /\ [][ConcurrentNext]_vars

\* the engine's code runs on when it can and time passes; nothing makes a
\* container end or a docker call fail
FairSpec == Spec /\ WF_vars(EngineStep) /\ WF_vars(ClockTick)

-----------------------------------------------------------------------------
(* The classifier alone: every exit code and every captured output *)

AllExitCodes == {0, 1, 2, 137}

\* the state in which lines 168-206 are entered: the container has exited
\* with the status and the output, and has been removed
InitClassify ==
    /\ fn = "python"
    /\ pc = "classify"
    /\ inDocker = FALSE
    /\ hostWs = None
    /\ wd = DefaultWorkingDir(None)
    /\ volPath = wd
    /\ snippet = Prompt
    /\ token = None
    /\ wsDirs = {wd}
    /\ files = <<>>
    /\ modes = <<>>
    /\ callback = FALSE
    /\ session_id = None
    /\ events = <<>>
    /\ line_buffer = <<>>
    /\ last_emit_time = 0
    /\ log_positions = 0
    /\ explicit_packages = <<>>
    /\ imports = {}
    /\ install_commands = <<>>
    /\ hashSeed = 1
    /\ session = NoSession
    /\ imageOK = "ok"
    /\ exit_code \in AllExitCodes
    /\ logs \in AllLogs
    /\ containers = <<[PyContainer(volPath, 0) EXCEPT !.status = "removed",
                                                      !.StatusCode = exit_code,
                                                      !.output = logs]>>
    /\ ip = 2
    /\ execLog = <<[cid |-> 1, kind |-> "run", line |-> 1, pipFailed |-> FALSE,
                    status |-> exit_code]>>
    /\ now = 0
    /\ loopStart = 0
    /\ waitStart = 0
    /\ result = NoResult
    /\ conc = <<>>

SpecClassify == InitClassify /\ [][PyClassify]_vars

-----------------------------------------------------------------------------
(* Properties *)

\* the call went through lines 157-206: its result is the classifier's
WasClassified == fn = "python" /\ pc = "returned" /\ containers # <<>>
               /\ containers[1].status = "removed"

\* the container of the call has run to its end
Finished == containers # <<>> /\ containers[1].status \in {"exited", "removed"}
            /\ ~containers[1].killed

\* C1: for every exit code and captured output, the run is judged failed
\* exactly when the exit code is non-zero or the output holds one of the
\* error signatures; the returned text is the output followed by the
\* remediation note when the run is judged failed, and the output unchanged
\* otherwise.
C1_ClassifierVerdict ==
    WasClassified =>
        LET failed == exit_code # 0 \/ \E i \in 1..Len(logs) : logs[i] \in error_indicators
        IN  /\ failed => result.value = Append(logs, guidance)
            /\ ~failed => result.value = logs

\* a run that ended with status 0 but printed an error signature got the note
C1_Witness ==
    /\ WasClassified
    /\ exit_code = 0
    /\ Len(logs) = 2 /\ logs[1] \notin error_indicators /\ logs[2] \in error_indicators
    /\ result.value = Append(logs, guidance)

\* C2: a call starts at most one container, and exactly one once it has
\* reached the run; every command of the call is executed by that container,
\* one after the other, every install step before the run of the snippet.
C2_OneContainerInstallThenRun ==
    /\ Len(containers) <= 1
    /\ (fn = "python" /\ pc \in {"wait", "logs", "remove", "cleanup", "classify"})
          => Len(containers) = 1
    /\ WasClassified => Len(containers) = 1
    /\ \A i \in 1..Len(execLog) :
          /\ execLog[i].cid = 1
          /\ execLog[i].line = i
          /\ execLog[i].kind = "run" => \A j \in 1..Len(execLog) :
                                           execLog[j].kind = "install" => j < i
    /\ (fn = "python" /\ Finished) =>
          /\ Cardinality({i \in 1..Len(execLog) : execLog[i].kind = "run"}) = 1
          /\ Cardinality({i \in 1..Len(execLog) : execLog[i].kind = "install"})
                = Len(explicit_packages) + Cardinality(imports)

\* three install steps and then the snippet have run in the one container
C2_Witness ==
    /\ WasClassified
    /\ Len(containers) = 1
    /\ Len(execLog) = 4
    /\ execLog[3].kind = "install"
    /\ execLog[4].kind = "run"

\* C3: whichever installs fail, every install step of the script is attempted,
\* the snippet is run after them, and the exit code the classifier sees is
\* the status with which the snippet ended.
C3_InstallFailureTolerated ==
    LET n == Len(Flatten(install_commands)) IN
    /\ (fn = "python" /\ Finished) =>
          /\ Len(install_commands) = Len(explicit_packages) + Cardinality(imports)
          /\ Len(execLog) = n + 1
          /\ \A i \in 1..n : execLog[i].kind \in {"install", "stray"}
          /\ execLog[n + 1].kind = "run"
          /\ containers[1].StatusCode = execLog[n + 1].status
    /\ (fn = "python" /\ (pc \in {"logs", "remove", "cleanup", "classify"} \/ WasClassified))
          => exit_code = execLog[n + 1].status
    /\ WasClassified =>
          result.value = Classified(execLog[n + 1].status, containers[1].output)

\* the first and the last install failed, the snippet ran and ended with
\* status 0, and the call returned its output
C3_Witness ==
    /\ WasClassified
    /\ Len(execLog) = 4
    /\ execLog[1].pipFailed
    /\ ~execLog[2].pipFailed
    /\ execLog[3].pipFailed
    /\ execLog[4].kind = "run" /\ execLog[4].status = 0
    /\ exit_code = 0
    /\ result.value = <<"2">>

TransientFiles == {"temp.py", "run_wrapper.sh", ".copilot_prompt.txt"}

\* C4: when a call returns or raises, none of the files it staged is left.
C4_TransientFilesRemoved ==
    pc \in {"returned", "raised"} => (DOMAIN files) \cap TransientFiles = {}

\* C5: no failure of the environment leaves the call as an exception.
C5_NoExceptionEscapes == pc # "raised"

\* the time the container of the call has run
RunTime ==
    IF containers[1].status = "running" THEN now - containers[1].startedAt
    ELSE containers[1].exitedAt - containers[1].startedAt

\* C6: a call whose container ran longer than the timeout never returns a
\* success result.
C6_TimedOutCallFails ==
    (fn = "copilot" /\ pc = "returned" /\ containers # <<>> /\ RunTime > timeout) =>
        ~result.value.success

\* C7: every call returns.
C7_EveryCallReturns == (pc # "idle") ~> (pc \in {"returned", "raised"})

\* C8: the container that runs the snippet has no network.
C8_RunPhaseNetworkDenied ==
    \A i \in 1..Len(execLog) :
        execLog[i].kind = "run" => containers[execLog[i].cid].network_disabled

\* where the workspace of the call lies on the host
HostWorkspace == AbsPath(DockerVolumePath(wd, inDocker, hostWs))

C10_FallbackWhenDockerUnavailable ==
    (pc = "returned" /\ imageOK = "failed") =>
        /\ \E i \in 1..Len(execLog) : execLog[i].kind \in {"run", "copilot"}
        /\ IF fn = "python" THEN Head(result.value) # "Error: "
           ELSE Head(result.value.response) # "Error running GitHub Copilot: "

\* C11: the process of a call starts in the directory in which the most
\* recent successful change of directory of an earlier call on the working
\* directory left its process, the sandbox root if there was none.
C11_WorkingDirectoryPersists ==
    \A i \in 1..Len(containers) : containers[i].working_dir = session.cwd

\* the call has built install_commands (lines 117-129)
Resolved == fn = "python" /\ imageOK = "ok" /\ pc # "wrapper"

RECURSIVE LineEnd(_, _)
\* the position of the last token of the line of s that holds position i
LineEnd(s, i) == IF i + 1 <= Len(s) /\ s[i + 1] # "\n" THEN LineEnd(s, i + 1) ELSE i

\* what follows each directive of the text on its line, in the order of the
\* directives
DirectiveArgs(s) ==
    LET at == SelectSeq([i \in 1..Len(s) |-> i], LAMBDA i : s[i] = "pip install")
        args == [k \in 1..Len(at) |-> Strip(SubSeq(s, at[k] + 1, LineEnd(s, at[k])))]
    IN  SelectSeq(args, LAMBDA a : a # <<>>)

\* C12: the install sequence of a snippet has one step for each install
\* directive of the text, in their order, then the import-derived steps; the
\* step of a directive installs exactly what follows the directive on its
\* line, no text of later lines or of other statements.
C12_ExplicitFirstAndVerbatim ==
    Resolved =>
        LET want == DirectiveArgs(snippet) IN
        /\ Len(install_commands) = Len(want) + Cardinality(imports)
        /\ \A i \in 1..Len(install_commands) :
              IF i <= Len(want)
              THEN install_commands[i] = <<<<Cmd("pip install -q", want[i]), Cmd("true", "")>>>>
              ELSE install_commands[i][1][1].c = "python -c import"

\* C13: a call that resolves the snippet the call before it resolved builds
\* the same install steps in the same order, whether or not the host process
\* was started anew in between.
C13_ResolutionRepeatable ==
    (Resolved /\ session.snippet = snippet) => install_commands = session.install

\* the files staged for execution: the snippet file and the wrapper script
ExecutionFiles == {"temp.py", "run_wrapper.sh"}

\* C15: a staged snippet file or wrapper script grants execute to its owner
\* and neither to the group nor to the others, for as long as it exists.
C15_ExecuteForOwnerOnly ==
    \A name \in (DOMAIN files) \cap ExecutionFiles :
        OwnerExec(modes[name]) /\ ~GroupExec(modes[name]) /\ ~OtherExec(modes[name])

\* the ways in which ast.parse rejects a text
Rejections == {"SyntaxError", "ValueError", "RecursionError"}

\* C14: for a snippet that ast.parse rejects, in whatever way, no exception
\* of the parser leaves the call; extract_imports gives the names the line
\* pattern finds and the call goes on to execute the snippet.
C14_RejectedSnippetFallsBack ==
    (fn = "python" /\ AstParse(StripFence(snippet)) \subseteq Rejections
        /\ pc \notin {"makedirs", "stage"}) =>
        /\ ~(pc = "raised" /\ result.value[1] \in Rejections)
        /\ (pc # "raised" => imports = RegexImports(StripFence(snippet)))

\* C16: a call with a token that starts with ghp_ has returned success False
\* and session_id None; it has created no directory, written no file and
\* started no container; when it was given a callback it has passed it one
\* event, of type error, and otherwise none.
C16_ClassicTokenRejected ==
    (fn = "copilot" /\ Head(token) = "ghp_") =>
        /\ pc = "returned"
        /\ result.kind = "dict"
        /\ result.value.success = FALSE
        /\ result.value.session_id = None
        /\ wsDirs = {} /\ files = <<>> /\ containers = <<>>
        /\ IF callback
           THEN Len(events) = 1 /\ events[1].type = "error"
           ELSE events = <<>>

\* a call with a classic token, a session to resume and a callback has
\* returned, its session_id is None and the callback got the one error event
C16_Witness ==
    /\ fn = "copilot" /\ Head(token) = "ghp_"
    /\ callback /\ session_id # None
    /\ pc = "returned"
    /\ result.value.session_id = None /\ ~result.value.success
    /\ Len(events) = 1 /\ events[1].type = "error"
    /\ wsDirs = {}

\* the event types the docstring of execute_github_copilot names (line 240)
DocumentedTypes == {"output", "error", "complete"}

\* C17: every event passed to stream_callback has one of the documented
\* types output, error and complete.
C17_DocumentedEventTypes ==
    \A i \in 1..Len(events) : events[i].type \in DocumentedTypes

\* the text of all events passed so far
ForwardedText == Flatten([i \in 1..Len(events) |-> events[i].content])

\* the pieces of text the CLI prints
OutputPieces == UNION {Range(script) : script \in CopilotScripts} \ {"\n", "\r"}

\* C19: while the output is read in the streaming loop, no piece of it is
\* passed to stream_callback more often than the CLI printed it: what was
\* passed on as the start of a long unfinished line is not passed on again
\* when more of the line arrives or when the line ends.
C19_ForwardedAtMostOnce ==
    (containers # <<>> /\ StartsWith(containers[1].output, logs)) =>
        \A piece \in OutputPieces :
            Count(ForwardedText, piece) <= Count(containers[1].output, piece)

\* C20: a call that has started a container and has returned has removed
\* the container, also when waiting for it or reading its logs failed.
C20_ContainerRemoved ==
    (pc \in {"returned", "raised"} /\ containers # <<>>) =>
        \A i \in 1..Len(containers) : containers[i].status = "removed"

\* the staged files the container of call c still has to read
StillToRead(c) ==
    IF ~Alive(c) THEN {}
    ELSE IF conc[c].phase = "start" THEN {"run_wrapper.sh", "temp.py"}
    ELSE {"temp.py"}

\* what call c wrote to the staged file
StagedBy(c, name) == IF name = "temp.py" THEN StagedSnippet(c) ELSE StagedWrapper(c)

\* C18: with two calls at the same time on one working directory, the python
\* process of each call's container runs the snippet of that call, and the
\* staged files a container still has to read are there as its call wrote them.
C18_ConcurrentCallsIsolated ==
    \A c \in DOMAIN conc :
        /\ conc[c].ran # <<>> => conc[c].ran = <<StagedSnippet(c)>>
        /\ \A name \in StillToRead(c) :
               name \in DOMAIN files /\ files[name] = StagedBy(c, name)

\* the positions of the complete events among the events passed so far
Completes == {i \in 1..Len(events) : events[i].type = "complete"}

=============================================================================
